---- MODULE Spec2Model ----
(***************************************************************************)
(* JOAT: issuing and parsing JWT OAuth 2.0 access tokens                   *)
(* (src/joat/__init__.py), together with the callers of the test suite     *)
(* (src/tests) that sign tokens directly with the codec.                   *)
(*                                                                         *)
(* Python values are tagged records; each type keeps its content in a      *)
(* field of its own.  Time is counted in ticks, TicksPerSec ticks to the   *)
(* second, so that datetimes carry a sub-second part which timegm drops.   *)
(***************************************************************************)
EXTENDS Integers, Sequences, FiniteSets, TLC

\* ------------------------------------------------------------------ bounds
TicksPerSec == 2
MaxClock == 2
MaxLifetime == 1

\* ------------------------------------------------------- program constants
\* datetime.timedelta(hours=1), in seconds
DefaultLifetimeSecs == 3600
\* the tests' datetime.timedelta(minutes=90), in seconds
TestLifetimeSecs == 5400

\* ------------------------------------------------------------ Python values
None_ == [t |-> "None"]
\* a keyword argument that was not passed
Absent == [t |-> "absent"]
PyStr(s) == [t |-> "str", s |-> s]
PyInt(n) == [t |-> "int", n |-> n]
PyList(items) == [t |-> "list", items |-> items]
Datetime(ticks) == [t |-> "datetime", ticks |-> ticks]
Timedelta(ticks) == [t |-> "timedelta", ticks |-> ticks]
PyDict(d) == [t |-> "dict", d |-> d]

\* calendar.timegm(dt.utctimetuple()): whole seconds since the epoch, the
\* sub-second part dropped
timegm(dt) == dt.ticks \div TicksPerSec

default_lifetime == Timedelta(DefaultLifetimeSecs * TicksPerSec)

\* kwargs.get(key, default)
kwargs_get(kwargs, key, default) ==
  IF kwargs[key] = Absent THEN default ELSE kwargs[key]

\* ------------------------------------------------------------ the JWT codec
\* json.dumps of one claim value
RECURSIVE json_dumps(_)
json_dumps(v) ==
  CASE v.t = "str" -> [j |-> "string", chars |-> v.s]
    [] v.t = "int" -> [j |-> "number", num |-> v.n]
    [] v.t = "list" -> [j |-> "array",
                        elems |-> [i \in DOMAIN v.items |-> json_dumps(v.items[i])]]
    [] v.t = "None" -> [j |-> "null"]

\* json.loads of one claim value
RECURSIVE json_loads(_)
json_loads(x) ==
  CASE x.j = "string" -> PyStr(x.chars)
    [] x.j = "number" -> PyInt(x.num)
    [] x.j = "array" -> PyList([i \in DOMAIN x.elems |-> json_loads(x.elems[i])])
    [] x.j = "null" -> None_

JwtHeader == [typ |-> "JWT", alg |-> "HS256"]

\* HMAC-SHA256 of the signing input under a key, kept symbolic: two
\* signatures are equal exactly when input and key are
HS256(signing_input, key) == [mac |-> "HS256", input |-> signing_input, key |-> key]

\* jwt.encode(claims, key): header segment, payload segment, signature
jwt_encode(claims, key) ==
  LET payload == [c \in DOMAIN claims |-> json_dumps(claims[c])]
  IN [shape |-> "jwt",
      header |-> JwtHeader,
      payload |-> payload,
      sig |-> HS256(<<JwtHeader, payload>>, key)]

\* jwt.load(token): the claims, signing input, header and signature of a
\* token, read without verifying anything; DecodeError when the string is
\* not three well-formed segments
jwt_load(token) ==
  IF token.shape # "jwt"
  THEN [exc |-> "DecodeError"]
  ELSE [exc |-> "",
        claims |-> [c \in DOMAIN token.payload |-> json_loads(token.payload[c])],
        signing_input |-> <<token.header, token.payload>>,
        header |-> token.header,
        sig |-> token.sig]

\* jwt.decode(token, key) at clock time now: the signature is checked first,
\* then the exp claim against the clock in whole seconds
jwt_decode(token, key, now) ==
  LET loaded == jwt_load(token)
  IN IF loaded.exc # "" THEN [exc |-> "DecodeError"]
     ELSE IF loaded.sig # HS256(loaded.signing_input, key) THEN [exc |-> "DecodeError"]
     ELSE IF "exp" \in DOMAIN loaded.claims /\ loaded.claims.exp.n < timegm(now)
          THEN [exc |-> "ExpiredSignature"]
     ELSE [exc |-> "", claims |-> loaded.claims]

\* ------------------------------------------------------- salt generators
\* The generators a caller assigns to an instance: the class's own, which
\* raises; the constant salts of the tests; one that derives the secret from
\* a claim, as the docstring of salt_generator suggests.
SaltGenerators == {"JOAT.salt_generator", "generate_salt", "by_iat"}

generate_salt(claims) == [k |-> "generate_salt"]
generate_wrong_salt(claims) == [k |-> "generate_wrong_salt"]

\* self.salt_generator(claims)
salt_generator(self, claims) ==
  CASE self.salt_generator = "JOAT.salt_generator" -> [exc |-> "NotImplementedError"]
    [] self.salt_generator = "generate_salt" -> [exc |-> "", salt |-> generate_salt(claims)]
    [] self.salt_generator = "by_iat" ->
         IF "iat" \in DOMAIN claims
         THEN [exc |-> "", salt |-> [k |-> "by_iat", iat |-> claims.iat]]
         ELSE [exc |-> "KeyError"]

\* ------------------------------------------------------------ issue_token
\* what a call leaves behind: the value returned or the exception raised,
\* and the steps it took, in order
Returns(value, steps) == [returned |-> value, raised |-> "", steps |-> steps]
Raises(exc, steps) == [returned |-> Absent, raised |-> exc, steps |-> steps]

\* the presence check with user_id left out of it
all_present_but_user(provider, client_id, user_id, scope, issued_at, lifetime) ==
  ~ \/ provider = None_
    \/ client_id = None_
    \/ scope = None_
    \/ issued_at = None_
    \/ lifetime = None_

\* "Make sure everything is present"
all_present(provider, client_id, user_id, scope, issued_at, lifetime) ==
  ~ \/ provider = None_
    \/ client_id = None_
    \/ user_id = None_
    \/ scope = None_
    \/ issued_at = None_
    \/ lifetime = None_

\* the type checks with the one on scope left out
right_types_any_scope(scope, issued_at, lifetime) ==
  /\ issued_at.t = "datetime"
  /\ lifetime.t = "timedelta"

\* "And the right type": the three isinstance checks
right_types(scope, issued_at, lifetime) ==
  /\ scope.t = "list"
  /\ issued_at.t = "datetime"
  /\ lifetime.t = "timedelta"

\* the claims with the lifetime subtracted from issued_at
populate_claims_subtracts(provider, client_id, user_id, scope, issued_at, lifetime, jti) ==
  LET expires == Datetime(issued_at.ticks - lifetime.ticks)
      claims == [iss |-> provider, aud |-> client_id, sub |-> user_id,
                 scope |-> scope,
                 iat |-> PyInt(timegm(issued_at)),
                 exp |-> PyInt(timegm(expires))]
  IN IF jti # None_ THEN claims @@ ("jti" :> jti) ELSE claims

\* "Populate the claims"
populate_claims(provider, client_id, user_id, scope, issued_at, lifetime, jti) ==
  LET expires == Datetime(issued_at.ticks + lifetime.ticks)
      claims == [iss |-> provider, aud |-> client_id, sub |-> user_id,
                 scope |-> scope,
                 iat |-> PyInt(timegm(issued_at)),
                 exp |-> PyInt(timegm(expires))]
  IN IF jti # None_ THEN claims @@ ("jti" :> jti) ELSE claims

issue_token(self, kwargs, now) ==
  LET provider == kwargs_get(kwargs, "provider", self.provider_name)
      client_id == kwargs_get(kwargs, "client_id", self.client_id)
      user_id == kwargs_get(kwargs, "user_id", self.user_id)
      scope == kwargs_get(kwargs, "scope", self.scope)
      issued_at == kwargs_get(kwargs, "issued_at", now)
      lifetime == kwargs_get(kwargs, "lifetime", self.default_lifetime)
      jti == kwargs_get(kwargs, "jti", None_)
  IN IF ~all_present(provider, client_id, user_id, scope, issued_at, lifetime)
     THEN Returns(None_, <<>>)
     ELSE IF ~right_types(scope, issued_at, lifetime)
     THEN Returns(None_, <<>>)
     ELSE
       LET claims == populate_claims(provider, client_id, user_id, scope,
                                     issued_at, lifetime, jti)
           secret == salt_generator(self, claims)
       IN IF secret.exc # ""
          THEN Raises(secret.exc, <<"salt_generator">>)
          ELSE Returns(jwt_encode(claims, secret.salt), <<"salt_generator", "jwt.encode">>)

\* ------------------------------------------------------------ parse_token
\* the try block with the claims of jwt.load trusted, whatever jwt.decode says
verify_unverified(self, token, now) ==
  LET loaded == jwt_load(token)
  IN IF loaded.exc # ""
     THEN [exc |-> loaded.exc, steps |-> <<"jwt.load">>]
     ELSE
       LET secret == salt_generator(self, loaded.claims)
       IN IF secret.exc # ""
          THEN [exc |-> secret.exc, steps |-> <<"jwt.load", "salt_generator">>]
          ELSE [steps |-> <<"jwt.load", "salt_generator", "jwt.decode">>,
                exc |-> "", claims |-> loaded.claims]

\* the try block: jwt.load, salt_generator on the claims it read, jwt.decode
\* with the salt; the first exception ends it
verify(self, token, now) ==
  LET loaded == jwt_load(token)
  IN IF loaded.exc # ""
     THEN [exc |-> loaded.exc, steps |-> <<"jwt.load">>]
     ELSE
       LET secret == salt_generator(self, loaded.claims)
       IN IF secret.exc # ""
          THEN [exc |-> secret.exc, steps |-> <<"jwt.load", "salt_generator">>]
          ELSE [steps |-> <<"jwt.load", "salt_generator", "jwt.decode">>]
                 @@ jwt_decode(token, secret.salt, now)

\* the payload dict with aud and sub taken for each other
payload_swapped(verified_claims, steps) ==
  IF {"aud", "sub", "scope"} \subseteq DOMAIN verified_claims
  THEN Returns(PyDict([client_id |-> verified_claims.sub,
                       user_id |-> verified_claims.aud,
                       authorized_scope |-> verified_claims.scope]),
               Append(steps, "payload"))
  ELSE Raises("KeyError", Append(steps, "payload"))

\* the payload dict; a claim the token lacks is a KeyError
payload(verified_claims, steps) ==
  IF {"aud", "sub", "scope"} \subseteq DOMAIN verified_claims
  THEN Returns(PyDict([client_id |-> verified_claims.aud,
                       user_id |-> verified_claims.sub,
                       authorized_scope |-> verified_claims.scope]),
               Append(steps, "payload"))
  ELSE Raises("KeyError", Append(steps, "payload"))

\* parse_token with ExpiredSignature handled like DecodeError
parse_token_expired_none(self, token, now) ==
  LET verified == verify(self, token, now)
  IN IF verified.exc \in {"DecodeError", "ExpiredSignature"}
     THEN Returns(None_, verified.steps)
     ELSE IF verified.exc # "" THEN Raises(verified.exc, verified.steps)
     ELSE
       LET verified_claims == verified.claims
           steps == Append(verified.steps, "issuer")
       IN IF "iss" \notin DOMAIN verified_claims THEN Raises("KeyError", steps)
          ELSE IF verified_claims.iss # self.provider_name THEN Returns(None_, steps)
          ELSE payload(verified_claims, steps)

\* parse_token without the issuer check
parse_token_any_issuer(self, token, now) ==
  LET verified == verify(self, token, now)
  IN IF verified.exc = "DecodeError" THEN Returns(None_, verified.steps)
     ELSE IF verified.exc # "" THEN Raises(verified.exc, verified.steps)
     ELSE payload(verified.claims, verified.steps)

\* parse_token without the except clause for DecodeError
parse_token_uncaught(self, token, now) ==
  LET verified == verify(self, token, now)
  IN IF verified.exc # "" THEN Raises(verified.exc, verified.steps)
     ELSE
       LET verified_claims == verified.claims
           steps == Append(verified.steps, "issuer")
       IN IF "iss" \notin DOMAIN verified_claims THEN Raises("KeyError", steps)
          ELSE IF verified_claims.iss # self.provider_name THEN Returns(None_, steps)
          ELSE payload(verified_claims, steps)

\* parse_token with the issuer checked on the unverified claims, before the
\* signature
parse_token_issuer_first(self, token, now) ==
  LET loaded == jwt_load(token)
  IN IF /\ loaded.exc = ""
        /\ "iss" \in DOMAIN loaded.claims
        /\ loaded.claims.iss # self.provider_name
     THEN Returns(None_, <<"jwt.load", "issuer">>)
     ELSE
       LET verified == verify(self, token, now)
       IN IF verified.exc = "DecodeError" THEN Returns(None_, verified.steps)
          ELSE IF verified.exc # "" THEN Raises(verified.exc, verified.steps)
          ELSE IF "iss" \notin DOMAIN verified.claims
               THEN Raises("KeyError", Append(verified.steps, "issuer"))
          ELSE payload(verified.claims, Append(verified.steps, "issuer"))

parse_token(self, token, now) ==
  LET verified == verify(self, token, now)
  IN IF verified.exc = "DecodeError" THEN Returns(None_, verified.steps)
     ELSE IF verified.exc # "" THEN Raises(verified.exc, verified.steps)
     ELSE
       LET verified_claims == verified.claims
           steps == Append(verified.steps, "issuer")
       IN IF "iss" \notin DOMAIN verified_claims THEN Raises("KeyError", steps)
          ELSE IF verified_claims.iss # self.provider_name THEN Returns(None_, steps)
          ELSE payload(verified_claims, steps)

\* ------------------------------------------------------------------ state
\* self: the JOAT instance (its attributes and the salt_generator assigned
\*       to it); clock: the UTC clock, in ticks; token: the token string the
\*       caller holds, or None; request: the issue_token call that produced
\*       the token the caller holds; last: the call that has just returned
\*       and its result
VARIABLES self, clock, token, request, last
vars == <<self, clock, token, request, last>>

NoRequest == [kwargs |-> Absent]
NoCall == [op |-> "none"]

\* JOAT(name, client_id=None); user_id, scope and default_lifetime are the
\* class attributes
JOAT(name, client_id) ==
  [provider_name |-> name,
   client_id |-> client_id,
   user_id |-> None_,
   scope |-> None_,
   default_lifetime |-> default_lifetime,
   salt_generator |-> "JOAT.salt_generator"]

\* ----------------------------------------------------------------- inputs
Email == PyStr("email")
Profile == PyStr("profile")
OtherProvider == PyStr("Other Provider")
ClientId == PyStr("abc123DEF")
UserId == PyStr("12345")

\* The issue_token calls explored.  A full product of the per-field inputs
\* is out of reach, so three families are explored, each a full product:
\* calls with any combination of fields missing or None,
MissingKwargs ==
  [provider : {Absent, None_}, client_id : {Absent, ClientId},
   user_id : {Absent, UserId},
   scope : {Absent, None_, PyList(<<Profile, Email>>)},
   issued_at : {Absent, None_}, lifetime : {Absent, None_}, jti : {Absent}]

\* calls with every field present and any combination of types, with or
\* without a jti,
TypedKwargs ==
  [provider : {Absent}, client_id : {ClientId}, user_id : {UserId},
   scope : {PyList(<<>>), PyList(<<Profile, Email>>), PyList(<<Email, PyInt(7)>>), Email},
   issued_at : {Absent, PyStr("2014-01-01")},
   lifetime : {Absent, PyInt(DefaultLifetimeSecs)}, jti : {Absent, PyStr("id-1")}]

\* and well-typed calls with any combination of provider and times.
TimedKwargs ==
  [provider : {Absent, OtherProvider}, client_id : {ClientId}, user_id : {UserId},
   scope : {PyList(<<Profile, Email>>)},
   issued_at : {Absent} \cup {Datetime(t) : t \in 0..MaxClock},
   lifetime : {Absent} \cup {Timedelta(d) : d \in (0 - MaxLifetime)..MaxLifetime},
   jti : {Absent}]

Kwargs == MissingKwargs \cup TypedKwargs \cup TimedKwargs

\* The claim sets the tests sign by hand (helper.py setUp), issued at the
\* clock's second and expiring d seconds later, for the instance's provider
\* or another one; and one claim set without a scope
TestClaims(now) ==
  LET full == {[iss |-> i, aud |-> ClientId, sub |-> UserId,
                scope |-> PyList(<<Email, Profile>>),
                iat |-> PyInt(timegm(now)), exp |-> PyInt(timegm(now) + d)] :
               i \in {PyStr("My OAuth2 Provider"), OtherProvider},
               d \in {0 - 1, 0, TestLifetimeSecs}}
  IN full \cup {[iss |-> PyStr("My OAuth2 Provider"), aud |-> ClientId, sub |-> UserId,
                 iat |-> PyInt(timegm(now)),
                 exp |-> PyInt(timegm(now) + TestLifetimeSecs)]}

\* the secrets a test signs with
TestSalts(claims) ==
  {generate_salt(claims), generate_wrong_salt(None_), [k |-> "by_iat", iat |-> claims.iat]}

\* what an attacker does to a token in transit
Tamperings == {"sub", "sig", "segments", "payload"}

tamper(tok, how) ==
  CASE how = "sub" -> [tok EXCEPT !.payload.sub = json_dumps(PyStr("mallory"))]
    [] how = "sig" -> [tok EXCEPT !.sig = [mac |-> "noise"]]
    [] how = "segments" -> [shape |-> "too few segments"]
    [] how = "payload" -> [shape |-> "payload is not JSON"]

Init ==
  /\ self = JOAT(PyStr("My OAuth2 Provider"), None_)
  /\ clock = 0
  /\ token = None_
  /\ request = NoRequest
  /\ last = NoCall

\* joat.salt_generator = g
AssignSaltGenerator ==
  \E g \in SaltGenerators :
    /\ self' = [self EXCEPT !.salt_generator = g]
    /\ last' = NoCall
    /\ UNCHANGED <<clock, token, request>>

\* the clock advances
Tick ==
  /\ clock < MaxClock
  /\ clock' = clock + 1
  /\ last' = NoCall
  /\ UNCHANGED <<self, token, request>>

\* token = joat.issue_token(**kwargs)
IssueToken ==
  \E kwargs \in Kwargs :
    LET res == issue_token(self, kwargs, Datetime(clock))
        issued == res.raised = "" /\ res.returned # None_
    IN /\ last' = [op |-> "issue_token", now |-> clock, kwargs |-> kwargs] @@ res
       /\ token' = IF issued THEN res.returned ELSE None_
       /\ request' = IF issued
                     THEN [kwargs |-> kwargs, now |-> clock,
                           salt_generator |-> self.salt_generator]
                     ELSE NoRequest
       /\ UNCHANGED <<self, clock>>

\* token = jwt.encode(claims, salt), as the tests do
EncodeToken ==
  \E claims \in TestClaims(Datetime(clock)) : \E salt \in TestSalts(claims) :
    /\ token' = jwt_encode(claims, salt)
    /\ request' = NoRequest
    /\ last' = NoCall
    /\ UNCHANGED <<self, clock>>

\* a token as its signer made it
intact(tok) ==
  /\ tok.shape = "jwt"
  /\ tok.sig.mac = "HS256"
  /\ tok.sig.input = <<tok.header, tok.payload>>

\* a token, as signed, is altered on its way back
TamperToken ==
  \E how \in Tamperings :
    /\ token # None_
    /\ intact(token)
    /\ how = "sub" => "sub" \in DOMAIN token.payload
    /\ token' = tamper(token, how)
    /\ request' = NoRequest
    /\ last' = NoCall
    /\ UNCHANGED <<self, clock>>

\* joat.parse_token(token)
ParseToken ==
  /\ token # None_
  /\ last' = [op |-> "parse_token", now |-> clock]
               @@ parse_token(self, token, Datetime(clock))
  /\ UNCHANGED <<self, clock, token, request>>

Next ==
  \/ AssignSaltGenerator
  \/ Tick
  \/ IssueToken
  \/ EncodeToken
  \/ TamperToken
  \/ ParseToken

Spec == Init /\ [][Next]_vars

\* ======================================================================
\* Properties
\* ======================================================================
\* the call that has just returned
Issued == last.op = "issue_token"
Parsed == last.op = "parse_token"

\* a field of an issue_token call as its caller means it: the argument
\* passed, else the instance's default
Given(kw, key, default) == IF kw[key] # Absent THEN kw[key] ELSE default
ReqProvider(kw) == Given(kw, "provider", self.provider_name)
ReqClient(kw) == Given(kw, "client_id", self.client_id)
ReqUser(kw) == Given(kw, "user_id", self.user_id)
ReqScope(kw) == Given(kw, "scope", self.scope)
ReqIssuedAt(kw, now) == Given(kw, "issued_at", Datetime(now))
ReqLifetime(kw) == Given(kw, "lifetime", Timedelta(DefaultLifetimeSecs * TicksPerSec))

AnyMissing(kw, now) ==
  \/ ReqProvider(kw) = None_ \/ ReqClient(kw) = None_ \/ ReqUser(kw) = None_
  \/ ReqScope(kw) = None_ \/ ReqIssuedAt(kw, now) = None_ \/ ReqLifetime(kw) = None_

ListOfStrings(scope) ==
  scope.t = "list" /\ \A i \in DOMAIN scope.items : scope.items[i].t = "str"

\* a call whose fields are all present and which passes the isinstance checks
WellTyped(kw, now) ==
  /\ ~AnyMissing(kw, now)
  /\ ReqScope(kw).t = "list"
  /\ ReqIssuedAt(kw, now).t = "datetime"
  /\ ReqLifetime(kw).t = "timedelta"

NonPositiveLifetime(kw) == ReqLifetime(kw).t = "timedelta" /\ ReqLifetime(kw).ticks <= 0

\* issued_at + lifetime, in whole seconds since the epoch
ReqExpSecs(kw, now) == (ReqIssuedAt(kw, now).ticks + ReqLifetime(kw).ticks) \div TicksPerSec

NowSecs == clock \div TicksPerSec

NoSteps == <<>>
IssueSteps == <<"salt_generator", "jwt.encode">>
ParseSteps == <<"jwt.load", "salt_generator", "jwt.decode", "issuer", "payload">>
IsPrefix(s, t) == Len(s) <= Len(t) /\ \A i \in 1..Len(s) : s[i] = t[i]

ReturnedNone == last.raised = "" /\ last.returned = None_
ReturnedPayload == last.raised = "" /\ last.returned.t = "dict"
ReturnedToken == last.raised = "" /\ last.returned # None_ /\ intact(last.returned)

\* the token just parsed: its unverified claims, the secret the instance's
\* salt_generator derives from them, and how its signature fares under it
TokenShaped == token.shape = "jwt"
TokenClaims == [c \in DOMAIN token.payload |-> json_loads(token.payload[c])]
DerivedSecret == salt_generator(self, TokenClaims)
SignatureVerifies ==
  /\ TokenShaped
  /\ DerivedSecret.exc = ""
  /\ token.sig = HS256(<<token.header, token.payload>>, DerivedSecret.salt)
SignatureFails ==
  /\ TokenShaped
  /\ DerivedSecret.exc = ""
  /\ token.sig # HS256(<<token.header, token.payload>>, DerivedSecret.salt)
ExpPassed == "exp" \in DOMAIN TokenClaims /\ TokenClaims.exp.n < NowSecs
IssuerDiffers == "iss" \in DOMAIN TokenClaims /\ TokenClaims.iss # self.provider_name

\* parse_token has just returned for a token this instance issued, under the
\* salt_generator it was issued with
RoundTrip == Parsed /\ request # NoRequest /\ request.salt_generator = self.salt_generator

RequestedPayload ==
  PyDict([client_id |-> ReqClient(request.kwargs),
          user_id |-> ReqUser(request.kwargs),
          authorized_scope |-> ReqScope(request.kwargs)])

C2_TamperRejected == Parsed /\ SignatureFails => ReturnedNone

C2_Witness ==
  /\ Parsed
  /\ SignatureFails
  /\ TokenClaims.sub = PyStr("mallory")
  /\ ReturnedNone

\* C3: a token whose signature verifies and whose exp is earlier than the
\* clock's second makes parse_token raise ExpiredSignature: no payload, and
\* not the None of a forged or malformed token.
C3_ExpiredIsRaised ==
  Parsed /\ SignatureVerifies /\ ExpPassed
  => last.raised = "ExpiredSignature" /\ last.returned = Absent

C3_Witness ==
  /\ Parsed /\ SignatureVerifies /\ ExpPassed
  /\ ~IssuerDiffers
  /\ last.raised = "ExpiredSignature"

\* C4: an unexpired token whose signature verifies but whose iss differs from
\* provider_name is refused at the issuer check: parse_token returns None.
C4_IssuerBoundary ==
  Parsed /\ SignatureVerifies /\ ~ExpPassed /\ IssuerDiffers
  => ReturnedNone /\ last.steps = SubSeq(ParseSteps, 1, 4)

\* ... reached with a token this instance issued under a provider= override
C4_Witness ==
  /\ RoundTrip
  /\ request.kwargs.provider = OtherProvider
  /\ SignatureVerifies /\ ~ExpPassed /\ IssuerDiffers
  /\ ReturnedNone

\* C5: when any of provider, client_id, user_id, scope, issued_at, lifetime
\* resolves to None, issue_token returns None, hands out no token and calls
\* neither salt_generator nor jwt.encode.
C5_MissingRejected ==
  Issued /\ AnyMissing(last.kwargs, last.now)
  => ReturnedNone /\ last.steps = NoSteps /\ token = None_

\* ... reached with user_id the only field missing, on an instance whose
\* salt_generator works
C5_Witness ==
  /\ Issued
  /\ self.salt_generator = "generate_salt"
  /\ ReqUser(last.kwargs) = None_
  /\ ReqProvider(last.kwargs) # None_ /\ ReqClient(last.kwargs) # None_
  /\ ReqScope(last.kwargs) # None_ /\ ReqIssuedAt(last.kwargs, last.now) # None_
  /\ ReqLifetime(last.kwargs) # None_
  /\ ReturnedNone /\ last.steps = NoSteps

\* C6: for a validly signed, unexpired token of this provider, parse_token
\* returns the payload the test expects:
\* {client: {id: aud, name: iss}, user_id: sub, authorized_scope: scope}.
C6_TestPayload ==
  /\ Parsed /\ SignatureVerifies /\ ~ExpPassed
  /\ "iss" \in DOMAIN TokenClaims /\ ~IssuerDiffers
  /\ {"aud", "sub", "scope"} \subseteq DOMAIN TokenClaims
  => /\ last.raised = ""
     /\ last.returned = PyDict([client |-> PyDict([id |-> TokenClaims.aud,
                                                   name |-> TokenClaims.iss]),
                                user_id |-> TokenClaims.sub,
                                authorized_scope |-> TokenClaims.scope])

\* what the caller of a call sees of it
Visible(res) == <<res.returned, res.raised>>

\* tokens signed with the wrong salt, as test_validate_with_incorrect_salt
\* makes them
WrongSaltTokens ==
  {jwt_encode(c, generate_wrong_salt(None_)) : c \in TestClaims(Datetime(clock))}

\* C7 as stated: what the caller sees for an input that is not token-shaped
\* differs from what it sees for a well-formed token whose signature fails.
C7_MalformedDistinct ==
  Parsed /\ ~TokenShaped
  => \A tok \in WrongSaltTokens :
       LET res == parse_token(self, tok, Datetime(clock))
       IN res.steps = SubSeq(ParseSteps, 1, 3) /\ res.raised = ""
          => Visible(res) # Visible(last)

\* C7: an input that is not token-shaped fails at the structural decode:
\* parse_token returns None having called jwt.load only - the same None it
\* returns for a well-formed token whose signature fails.
C7_MalformedRejected ==
  Parsed /\ ~TokenShaped => ReturnedNone /\ last.steps = <<"jwt.load">>

C7_Witness ==
  /\ Parsed /\ ~TokenShaped
  /\ self.salt_generator = "generate_salt"
  /\ ReturnedNone

\* C8: parse_token runs jwt.load, salt_generator, jwt.decode, the issuer
\* check and the payload in that order, each only after the ones before it
\* succeeded: no salt_generator call for a malformed token; a bad signature
\* is None whatever exp is; a verified, expired token raises ExpiredSignature
\* whatever iss is.
C8_StepOrder ==
  Parsed =>
    /\ last.steps # NoSteps
    /\ IsPrefix(last.steps, ParseSteps)
    /\ ~TokenShaped => last.steps = SubSeq(ParseSteps, 1, 1) /\ ReturnedNone
    /\ TokenShaped /\ DerivedSecret.exc # ""
         => last.steps = SubSeq(ParseSteps, 1, 2) /\ last.raised = DerivedSecret.exc
    /\ SignatureFails => last.steps = SubSeq(ParseSteps, 1, 3) /\ ReturnedNone
    /\ SignatureVerifies /\ ExpPassed
         => last.steps = SubSeq(ParseSteps, 1, 3) /\ last.raised = "ExpiredSignature"
    /\ SignatureVerifies /\ ~ExpPassed /\ IssuerDiffers
         => last.steps = SubSeq(ParseSteps, 1, 4) /\ ReturnedNone
    /\ ReturnedPayload => last.steps = ParseSteps

\* ... reached with a verified token that is both expired and of another
\* issuer
C8_Witness ==
  /\ Parsed /\ SignatureVerifies /\ ExpPassed /\ IssuerDiffers
  /\ last.raised = "ExpiredSignature"
  /\ last.steps = SubSeq(ParseSteps, 1, 3)

\* issue_token accepts a zero or negative lifetime and returns a token
NonPositiveIssued ==
  /\ Issued
  /\ WellTyped(last.kwargs, last.now)
  /\ NonPositiveLifetime(last.kwargs)
  /\ self.salt_generator # "JOAT.salt_generator"
  => ReturnedToken /\ last.steps = IssueSteps

\* C9 as stated: a token issued with a zero or negative lifetime is expired
\* at every clock time from its issue on.
C9_AlwaysExpired ==
  /\ NonPositiveIssued
  /\ RoundTrip /\ NonPositiveLifetime(request.kwargs)
     => last.raised = "ExpiredSignature"

\* C9: issue_token accepts a zero or negative lifetime and returns a token;
\* parse_token raises ExpiredSignature for it at every clock time whose
\* second is later than issued_at + lifetime (whole seconds).
C9_ExpiredOncePast ==
  /\ NonPositiveIssued
  /\ RoundTrip /\ NonPositiveLifetime(request.kwargs)
       /\ ReqExpSecs(request.kwargs, request.now) < NowSecs
     => last.raised = "ExpiredSignature" /\ last.returned = Absent

C9_Witness ==
  /\ RoundTrip /\ NonPositiveLifetime(request.kwargs)
  /\ request.kwargs.issued_at = Absent
  /\ ReqExpSecs(request.kwargs, request.now) < NowSecs
  /\ last.raised = "ExpiredSignature"

\* a call with every field present that is refused without signing
RefusedUnsigned == ReturnedNone /\ last.steps = NoSteps /\ token = None_

\* a call that is signed (on an instance whose salt_generator works)
Signed ==
  self.salt_generator # "JOAT.salt_generator" => ReturnedToken /\ last.steps = IssueSteps

====
